---- MODULE Spec2Model ----
(***************************************************************************)
(* The TOML parser state machine (parser.go) driving the tree builder      *)
(* (builder.go and the second treeBuilder source, unnamed/part_000) over a *)
(* token stream.                                                           *)
(*                                                                         *)
(* Strings that the code inspects character by character (keys, number     *)
(* literals) are sequences of one-character strings.  Pointers to Tree     *)
(* nodes are indexes into `heap`, 0 being the nil pointer.                 *)
(***************************************************************************)
EXTENDS Integers, Sequences, FiniteSets, TLC

\* Longest token stream handed to parseToml.
MaxTokens == 10

-----------------------------------------------------------------------------
(* Positions, errors, Go values *)

Position(line, col) ==
    [line |-> line, col |-> col]

NoPosition ==
    Position(0, 0)

\* No panic is in flight.
NoErr ==
    [kind |-> "none", position |-> NoPosition, msg |-> ""]

\* raiseError: panic(position.String() + ": " + msg).
Error(position, msg) ==
    [kind |-> "error", position |-> position, msg |-> msg]

\* A panic of the Go runtime (nil pointer dereference) or a bare panic(msg):
\* it carries no position.
RuntimePanic(msg) ==
    [kind |-> "panic", position |-> NoPosition, msg |-> msg]

NilDeref ==
    RuntimePanic("invalid memory address or nil pointer dereference")

GoNil ==
    [type |-> "nil"]

GoString(s) ==
    [type |-> "string", str |-> s]

GoBool(v) ==
    [type |-> "bool", bool |-> v]

GoInt(n) ==
    [type |-> "int64", int |-> n]

\* A float64, kept as the text it was read from ("+Inf", "-Inf", "NaN" for
\* the special values).
GoFloat(text) ==
    [type |-> "float64", float |-> text]

GoTime(text) ==
    [type |-> "time.Time", time |-> text]

GoSlice(elems) ==
    [type |-> "[]interface {}", elems |-> elems]

TreePtr(id) ==
    [type |-> "*Tree", id |-> id]

TreeSlice(ids) ==
    [type |-> "[]*Tree", ids |-> ids]

tomlValue(value, position) ==
    [type |-> "*tomlValue", value |-> value, position |-> position]

\* reflect.TypeOf(value)
TypeOf(value) ==
    value.type

-----------------------------------------------------------------------------
(* Tree: the nodes live in a heap, a sequence of                           *)
(* [values, position, parent]; a node's id is its index.                   *)

EmptyMap ==
    << >>

MapSet(m, k, v) ==
    [x \in (DOMAIN m) \cup {k} |-> IF x = k THEN v ELSE m[x]]

\* t.values[k], nil when the key is absent
MapGet(m, k) ==
    IF k \in DOMAIN m THEN m[k] ELSE GoNil

newTree(h, parent, position) ==
    Append(h, [values |-> EmptyMap, position |-> position, parent |-> parent])

SetValue(h, id, k, v) ==
    [h EXCEPT ![id].values = MapSet(@, k, v)]

Last(s) ==
    s[Len(s)]

Front(s) ==
    SubSeq(s, 1, Len(s) - 1)

\* createSubTree: walk `keys` from node `sub`, creating the missing tables;
\* a table array is entered through its last element; anything else on the
\* way is an error.  withParent: builder.go's newTree(parent).
RECURSIVE createSubTree(_, _, _, _, _)
createSubTree(h, sub, keys, position, withParent) ==
    IF keys = << >>
    THEN [heap |-> h, tree |-> sub, err |-> FALSE]
    ELSE LET k == Head(keys)
             h1 == IF k \in DOMAIN h[sub].values
                   THEN h
                   ELSE SetValue(newTree(h, IF withParent THEN sub ELSE 0, position),
                                 sub, k, TreePtr(Len(h) + 1))
             node == h1[sub].values[k]
         IN  IF node.type = "[]*Tree"
             THEN createSubTree(h1, Last(node.ids), Tail(keys), position, withParent)
             ELSE IF node.type = "*Tree"
             THEN createSubTree(h1, node.id, Tail(keys), position, withParent)
             ELSE [heap |-> h1, tree |-> 0, err |-> TRUE]

\* GetPath: nil when the path is absent; a table array on the way is entered
\* through its last element; a *tomlValue leaf is unwrapped.
RECURSIVE GetPath(_, _, _)
GetPath(h, sub, keys) ==
    IF keys = << >>
    THEN TreePtr(sub)
    ELSE LET node == MapGet(h[sub].values, Head(keys))
         IN  IF Len(keys) = 1
             THEN IF node.type = "*tomlValue" THEN node.value ELSE node
             ELSE IF node.type = "*Tree"
             THEN GetPath(h, node.id, Tail(keys))
             ELSE IF node.type = "[]*Tree"
             THEN IF node.ids = << >> THEN GoNil
                  ELSE GetPath(h, Last(node.ids), Tail(keys))
             ELSE GoNil

\* SetPath: creates the missing intermediate tables, enters a table array
\* through its last element, and overwrites the leaf.
RECURSIVE SetPath(_, _, _, _)
SetPath(h, sub, keys, value) ==
    IF Len(keys) = 1
    THEN SetValue(h, sub, keys[1],
                  IF value.type \in {"*Tree", "[]*Tree", "*tomlValue"}
                  THEN value
                  ELSE tomlValue(value, NoPosition))
    ELSE LET k == Head(keys)
             h1 == IF k \in DOMAIN h[sub].values
                   THEN h
                   ELSE SetValue(newTree(h, 0, NoPosition), sub, k, TreePtr(Len(h) + 1))
             node == h1[sub].values[k]
         IN  IF node.type = "*Tree"
             THEN SetPath(h1, node.id, Tail(keys), value)
             ELSE IF node.type = "[]*Tree" /\ node.ids # << >>
             THEN SetPath(h1, Last(node.ids), Tail(keys), value)
             ELSE SetPath(h1, sub, Tail(keys), value)

\* strings.Split(s, "."), the segment being built in `cur`
RECURSIVE SplitDots(_, _)
SplitDots(s, cur) ==
    IF s = << >>
    THEN <<cur>>
    ELSE IF Head(s) = "."
    THEN <<cur>> \o SplitDots(Tail(s), << >>)
    ELSE SplitDots(Tail(s), Append(cur, Head(s)))

\* parseKey: the dotted form of a table key as its path segments; an empty
\* segment is an error.
parseKey(key) ==
    LET keys == SplitDots(key, << >>)
    IN  [keys |-> keys, err |-> \E i \in 1..Len(keys) : keys[i] = << >>]

\* Tree.Set(key, value): SetPath(strings.Split(key, "."), value)
TreeSet(h, id, key, value) ==
    SetPath(h, id, SplitDots(key, << >>), value)

\* strings.HasPrefix
HasPrefix(s, prefix) ==
    /\ Len(s) >= Len(prefix)
    /\ SubSeq(s, 1, Len(prefix)) = prefix

-----------------------------------------------------------------------------
(* treeBuilder.  Every operation takes the builder and the heap and returns *)
(* [b, heap, err]: what it has written when it returns or panics.           *)
(* The struct holds the fields that the two sources declare or use.         *)

makeTreeBuilder ==
    [tree            |-> 1,
     currentTable    |-> << >>,
     seenTableKeys   |-> << >>,
     assignKey       |-> << >>,
     assignKeyVal    |-> << >>,
     assignPosition  |-> NoPosition,
     currentTree     |-> 0,
     assignTree      |-> 0,
     inArray         |-> FALSE,
     array           |-> << >>,
     arrayType       |-> "nil",
     inlineTableTree |-> 0]

\* The heap after makeTreeBuilder: the root tree, at position {1, 1}.
makeTreeBuilderHeap ==
    newTree(<< >>, 0, Position(1, 1))

Done(b, h) ==
    [b |-> b, heap |-> h, err |-> NoErr]

Raise(b, h, e) ==
    [b |-> b, heap |-> h, err |-> e]

\* A slip of the loop: no key is removed.
pruneSeenTableKeys_keepAll(seen, ii, found, key, prefix) ==
    [seenTableKeys |-> seen,
     found |-> seen # << >> /\ seen[Len(seen)] = key]

\* The loop that removes from seenTableKeys the keys that start with prefix;
\* ii counts from 0 as in the code.
RECURSIVE pruneSeenTableKeys(_, _, _, _, _)
pruneSeenTableKeys(seen, ii, found, key, prefix) ==
    IF ii >= Len(seen)
    THEN [seenTableKeys |-> seen, found |-> found]
    ELSE LET tableKey == seen[ii + 1]
         IN  IF HasPrefix(tableKey, prefix)
             THEN pruneSeenTableKeys(SubSeq(seen, 1, ii) \o SubSeq(seen, ii + 2, Len(seen)),
                                     ii, found, key, prefix)
             ELSE pruneSeenTableKeys(seen, ii + 1, tableKey = key, key, prefix)

\* A slip of the bookkeeping: the children are pruned, the key is not kept.
keepSeen_pruneOnly(b, key) ==
    [b EXCEPT !.seenTableKeys =
         pruneSeenTableKeys(b.seenTableKeys, 0, FALSE, key, Append(key, ".")).seenTableKeys]

\* "keep this key name from use by other kinds of assignments"
keepSeen(b, key) ==
    LET p == pruneSeenTableKeys(b.seenTableKeys, 0, FALSE, key, Append(key, "."))
    IN  [b EXCEPT !.seenTableKeys = IF p.found THEN p.seenTableKeys
                                    ELSE Append(p.seenTableKeys, key)]

\* builder.go
enterGroupArray(b, h, key, keys, position) ==
    LET cs == createSubTree(h, b.tree, Front(keys), position, TRUE)
        destTree == GetPath(cs.heap, b.tree, keys)
        array == IF destTree.type = "nil" THEN << >> ELSE destTree.ids
        id == Len(cs.heap) + 1
        h1 == newTree(cs.heap, cs.tree, position)
        b1 == [b EXCEPT !.currentTable = keys]
        h2 == SetPath(h1, b.tree, b1.currentTable, TreeSlice(Append(array, id)))
        b2 == [b1 EXCEPT !.currentTree = id]
    IN  IF cs.err
        THEN Raise(b, cs.heap, Error(position, "unknown type for path"))
        ELSE IF destTree.type \notin {"nil", "[]*Tree"}
        THEN Raise(b, cs.heap,
                   Error(position, "key is already assigned and not of type table array"))
        ELSE Done(keepSeen(b2, key), h2)

\* unnamed/part_000: the error of createSubTree is dropped, the new tree has
\* no parent, and there is no currentTree.
enterGroupArray_part000(b, h, key, keys, position) ==
    LET cs == createSubTree(h, b.tree, Front(keys), position, FALSE)
        destTree == GetPath(cs.heap, b.tree, keys)
        array == IF destTree.type = "nil" THEN << >> ELSE destTree.ids
        id == Len(cs.heap) + 1
        h1 == newTree(cs.heap, 0, position)
        b1 == [b EXCEPT !.currentTable = keys]
        h2 == SetPath(h1, b.tree, b1.currentTable, TreeSlice(Append(array, id)))
    IN  IF destTree.type \notin {"nil", "[]*Tree"}
        THEN Raise(b, cs.heap,
                   Error(position, "key is already assigned and not of type table array"))
        ELSE Done(keepSeen(b1, key), h2)

\* A slip of the duplicate test: only the key declared last is compared.
seenTable_lastOnly(b, key) ==
    b.seenTableKeys # << >> /\ Last(b.seenTableKeys) = key

\* for _, item := range b.seenTableKeys { if item == key { raise } }
seenTable(b, key) ==
    \E i \in 1..Len(b.seenTableKeys) : b.seenTableKeys[i] = key

\* builder.go
enterGroup(b, h, key, keys, position) ==
    LET b1 == [b EXCEPT !.seenTableKeys = Append(@, key)]
        cs == createSubTree(h, b.tree, keys, position, TRUE)
    IN  IF seenTable(b, key)
        THEN Raise(b, h, Error(position, "duplicated tables"))
        ELSE IF cs.err
        THEN Raise(b1, cs.heap, Error(position, "unknown type for path"))
        ELSE Done([b1 EXCEPT !.currentTree = cs.tree, !.currentTable = keys], cs.heap)

\* unnamed/part_000
enterGroup_part000(b, h, key, keys, position) ==
    LET b1 == [b EXCEPT !.seenTableKeys = Append(@, key)]
        cs == createSubTree(h, b.tree, keys, position, FALSE)
    IN  IF seenTable(b, key)
        THEN Raise(b, h, Error(position, "duplicated tables"))
        ELSE IF cs.err
        THEN Raise(b1, cs.heap, Error(position, "unknown type for path"))
        ELSE Done([b1 EXCEPT !.currentTable = keys], cs.heap)

\* builder.go: the key is looked up in currentTree, which no header has set
\* before the first [table] or [[table array]].
enterAssign(b, h, key, position) ==
    LET b1 == [b EXCEPT !.assignPosition = position]
    IN  IF b1.currentTree = 0
        THEN Raise(b1, h, NilDeref)
        ELSE IF MapGet(h[b1.currentTree].values, key).type # "nil"
        THEN Raise(b1, h, Error(position, "The following key was defined twice"))
        ELSE Done([b1 EXCEPT !.assignKey = key], h)

\* unnamed/part_000: the table is found through currentTable; the key that
\* is tested and kept is b.assignKeyVal, the parameter `key` is not read.
enterAssign_part000(b, h, key, position) ==
    LET b1 == [b EXCEPT !.assignPosition = position]
        tableKey == b1.currentTable
        node == GetPath(h, b1.tree, tableKey)
        targetNode == IF node.type = "[]*Tree" THEN Last(node.ids) ELSE node.id
        keyVal == b1.assignKeyVal
    IN  IF node.type \notin {"[]*Tree", "*Tree"}
        THEN Raise(b1, h, Error(position, "Unknown table type for path"))
        ELSE IF GetPath(h, targetNode, <<keyVal>>).type # "nil"
        THEN Raise(b1, h, Error(position, "The following key was defined twice"))
        ELSE Done([b1 EXCEPT !.assignKeyVal = keyVal, !.assignTree = targetNode], h)

\* The part of foundValue that runs in array-accumulation mode.
accumulate(b, h, value, position) ==
    LET b1 == IF b.arrayType = "nil" THEN [b EXCEPT !.arrayType = TypeOf(value)] ELSE b
    IN  IF TypeOf(value) # b1.arrayType
        THEN Raise(b1, h, Error(position, "mixed types in array"))
        ELSE Done([b1 EXCEPT !.array = Append(@, value)], h)

\* case *Tree, []*Tree: toInsert = value; default: a tomlValue
toInsert(b, value) ==
    IF value.type \in {"*Tree", "[]*Tree"}
    THEN value
    ELSE tomlValue(value, b.assignPosition)

\* builder.go: stores through b.assignTree, a field that no method of
\* builder.go assigns.
foundValue(b, h, value, position) ==
    IF b.inArray
    THEN accumulate(b, h, value, position)
    ELSE IF b.assignTree = 0
    THEN Raise(b, h, NilDeref)
    ELSE Done(b, SetValue(h, b.assignTree, b.assignKey, toInsert(b, value)))

\* unnamed/part_000
foundValue_part000(b, h, value, position) ==
    IF b.inArray
    THEN accumulate(b, h, value, position)
    ELSE IF b.assignTree = 0
    THEN Raise(b, h, NilDeref)
    ELSE Done(b, SetValue(h, b.assignTree, b.assignKeyVal, toInsert(b, value)))

enterArray(b, h) ==
    Done([b EXCEPT !.array = << >>, !.arrayType = TypeOf(GoNil), !.inArray = TRUE], h)

\* tomlArray[i] = v.(*Tree)
treeIds(array) ==
    [i \in 1..Len(array) |-> array[i].id]

\* builder.go: an array of *Tree is stored as a table array, and the return
\* leaves inArray set; anything else is stored as a tomlValue.
exitArray(b, h) ==
    IF b.assignTree = 0
    THEN Raise(b, h, NilDeref)
    ELSE IF b.arrayType = "*Tree"
    THEN Done(b, SetValue(h, b.assignTree, b.assignKey, TreeSlice(treeIds(b.array))))
    ELSE Done([b EXCEPT !.inArray = FALSE],
              SetValue(h, b.assignTree, b.assignKey,
                       tomlValue(GoSlice(b.array), b.assignPosition)))

\* unnamed/part_000
exitArray_part000(b, h) ==
    IF b.assignTree = 0
    THEN Raise(b, h, NilDeref)
    ELSE IF b.arrayType = "*Tree"
    THEN Done(b, SetValue(h, b.assignTree, b.assignKeyVal, TreeSlice(treeIds(b.array))))
    ELSE Done([b EXCEPT !.inArray = FALSE],
              SetValue(h, b.assignTree, b.assignKeyVal,
                       tomlValue(GoSlice(b.array), b.assignPosition)))

\* b.inlineTableTree = newTree()
enterInlineTable(b, h) ==
    Done([b EXCEPT !.inlineTableTree = Len(h) + 1], newTree(h, 0, NoPosition))

-----------------------------------------------------------------------------
(* Tokens and number literals *)

Token(typ, val) ==
    [typ |-> typ, val |-> val]

\* What peek and getToken return at the end of the stream.
NilToken ==
    Token("nil", << >>)

\* The keys, table keys and literals of the token streams that are explored.
Keys ==
    {<<"a">>, <<"b">>, <<"a", ".", "b">>}

TableKeys ==
    {<<"a">>, <<"a", ".", "b">>, <<"a", "b">>}

IntegerLiterals ==
    {<<"1">>, <<"2">>}

Tokens ==
    {Token("tokenKey", k) : k \in Keys}
    \cup {Token("tokenKeyGroup", k) : k \in TableKeys}
    \cup {Token("tokenKeyGroupArray", k) : k \in TableKeys}
    \cup {Token("tokenInteger", n) : n \in IntegerLiterals}
    \cup {Token("tokenString", <<"x">>), Token("tokenTrue", << >>),
          Token("tokenFloat", <<"1", ".", "5">>),
          Token("tokenEqual", << >>), Token("tokenComma", << >>),
          Token("tokenLeftBracket", << >>), Token("tokenRightBracket", << >>),
          Token("tokenDoubleLeftBracket", << >>), Token("tokenDoubleRightBracket", << >>),
          Token("tokenLeftCurlyBrace", << >>), Token("tokenRightCurlyBrace", << >>),
          Token("tokenEOF", << >>), Token("tokenError", <<"e">>)}

DecDigits ==
    {"0", "1", "2", "3", "4", "5", "6", "7", "8", "9"}

LowerHexDigits ==
    DecDigits \cup {"a", "b", "c", "d", "e", "f"}

\* The value of a digit in strconv.ParseInt, letters in either case.
DigitValue(c) ==
    CASE c = "0" -> 0 [] c = "1" -> 1 [] c = "2" -> 2 [] c = "3" -> 3 [] c = "4" -> 4
      [] c = "5" -> 5 [] c = "6" -> 6 [] c = "7" -> 7 [] c = "8" -> 8 [] c = "9" -> 9
      [] c \in {"a", "A"} -> 10 [] c \in {"b", "B"} -> 11 [] c \in {"c", "C"} -> 12
      [] c \in {"d", "D"} -> 13 [] c \in {"e", "E"} -> 14 [] c \in {"f", "F"} -> 15
      [] OTHER -> 99

\* A match of ([^<class>]_|_[^<class>])|_$|^_ somewhere in value.
underscoreMisplaced(value, class) ==
    \E i \in 1..Len(value) :
        /\ value[i] = "_"
        /\ \/ i = 1
           \/ i = Len(value)
           \/ value[i - 1] \notin class
           \/ value[i + 1] \notin class

\* numberUnderscoreInvalidRegexp: ([^\d]_|_[^\d])|_$|^_
numberContainsInvalidUnderscore(value) ==
    underscoreMisplaced(value, DecDigits)

\* hexNumberUnderscoreInvalidRegexp: (^0x_)|([^\da-f]_|_[^\da-f])|_$|^_
hexNumberContainsInvalidUnderscore(value) ==
    \/ HasPrefix(value, <<"0", "x", "_">>)
    \/ underscoreMisplaced(value, LowerHexDigits)

\* strings.Replace(value, "_", "", -1)
cleanupNumberToken(value) ==
    SelectSeq(value, LAMBDA c : c # "_")

RECURSIVE digitsValue(_, _, _)
digitsValue(s, base, acc) ==
    IF s = << >> THEN acc
    ELSE digitsValue(Tail(s), base, acc * base + DigitValue(Head(s)))

\* strconv.ParseInt(s, base, 64) for literals short enough not to leave
\* the range of int64: an optional sign, then at least one digit of the base.
ParseInt(s, base) ==
    LET signed == s # << >> /\ Head(s) \in {"+", "-"}
        digits == IF signed THEN Tail(s) ELSE s
        ok == /\ digits # << >>
              /\ \A i \in 1..Len(digits) : DigitValue(digits[i]) < base
    IN  IF ~ok
        THEN [err |-> TRUE, val |-> 0]
        ELSE [err |-> FALSE,
              val |-> IF signed /\ Head(s) = "-"
                      THEN 0 - digitsValue(digits, base, 0)
                      ELSE digitsValue(digits, base, 0)]

\* The tokenInteger case of parseRvalue up to its call of foundValue:
\* [kind, msg, val], kind "ok", "error" (p.raiseError) or "panic".
integerValue(val) ==
    LET cleanedVal == cleanupNumberToken(val)
        rest == SubSeq(cleanedVal, 3, Len(cleanedVal))
        Result(bad, msg, base, digits) ==
            IF bad THEN [kind |-> "error", msg |-> msg, val |-> 0]
            ELSE IF ParseInt(digits, base).err
            THEN [kind |-> "error", msg |-> "strconv.ParseInt", val |-> 0]
            ELSE [kind |-> "ok", msg |-> "", val |-> ParseInt(digits, base).val]
    IN  IF Len(cleanedVal) >= 3 /\ cleanedVal[1] = "0"
        THEN CASE cleanedVal[2] = "x" ->
                      Result(hexNumberContainsInvalidUnderscore(val),
                             "invalid use of _ in hex number", 16, rest)
               [] cleanedVal[2] = "o" ->
                      Result(numberContainsInvalidUnderscore(val),
                             "invalid use of _ in number", 8, rest)
               [] cleanedVal[2] = "b" ->
                      Result(numberContainsInvalidUnderscore(val),
                             "invalid use of _ in number", 2, rest)
               [] OTHER -> [kind |-> "panic", msg |-> "invalid base", val |-> 0]
        ELSE Result(numberContainsInvalidUnderscore(val),
                    "invalid use of _ in number", 10, cleanedVal)

-----------------------------------------------------------------------------
(* tomlParser *)

VARIABLES
    version,   \* which source of treeBuilder is built: "builder.go" or "part_000"
    flow,      \* p.flow, as far as the parser has looked into it
    ended,     \* p.flow holds no token beyond those in flow
    flowIdx,   \* p.flowIdx
    state,     \* the state function that run calls next; "nil" ends the loop
    stack,     \* the calls of parseRvalue, parseArray, parseInlineTable in progress
    heap,      \* the Tree nodes; node 1 is builder.tree
    b,         \* the treeBuilder
    err,       \* the panic that has ended the parse, or NoErr
    calls      \* history: the builder operations invoked so far

vars ==
    <<version, flow, ended, flowIdx, state, stack, heap, b, err, calls>>

\* The parser, its builder and the heap as one value; the state functions
\* below map it to the set of values they can leave, one per continuation
\* of the token stream.
Machine ==
    [flow |-> flow, ended |-> ended, flowIdx |-> flowIdx, state |-> state,
     stack |-> stack, heap |-> heap, b |-> b, err |-> err, calls |-> calls]

Install(m) ==
    /\ flow' = m.flow
    /\ ended' = m.ended
    /\ flowIdx' = m.flowIdx
    /\ state' = m.state
    /\ stack' = m.stack
    /\ heap' = m.heap
    /\ b' = m.b
    /\ err' = m.err
    /\ calls' = m.calls
    /\ version' = version

\* The Position of the i-th token of the stream (all tokens on line 1).
tokenPosition(i) ==
    Position(1, i)

\* What peek can return: the token at flowIdx, or nil at the end of the
\* stream.  A token that the parser has not looked at yet is any token.
peekChoices(m) ==
    IF m.flowIdx < Len(m.flow)
    THEN {m.flow[m.flowIdx + 1]}
    ELSE IF m.ended \/ Len(m.flow) >= MaxTokens
    THEN {NilToken}
    ELSE Tokens \cup {NilToken}

\* peek has returned tok
peek(m, tok) ==
    IF m.flowIdx < Len(m.flow) THEN m
    ELSE IF tok = NilToken THEN [m EXCEPT !.ended = TRUE]
    ELSE [m EXCEPT !.flow = Append(@, tok)]

\* getToken has returned tok
getToken(m, tok) ==
    IF tok = NilToken
    THEN peek(m, tok)
    ELSE [peek(m, tok) EXCEPT !.flowIdx = @ + 1]

\* p.raiseError(tok, msg): reads tok.Position, tok may be nil
raiseError(m, tok, position, msg) ==
    [m EXCEPT !.err = IF tok = NilToken THEN NilDeref ELSE Error(position, msg)]

\* Run F on every machine of S that has not panicked.
Then(S, F(_)) ==
    UNION {IF m.err = NoErr THEN F(m) ELSE {m} : m \in S}

assume(m, typ) ==
    {LET m1 == getToken(m, tok)
     IN  IF tok = NilToken
         THEN raiseError(m1, tok, NoPosition, "was expecting token, but token stream is empty")
         ELSE IF tok.typ # typ
         THEN raiseError(m1, tok, tokenPosition(m1.flowIdx), "was expecting token")
         ELSE m1
     : tok \in peekChoices(m)}

\* p.builder.<op>(...): the operation of the treeBuilder that is built.  The
\* history keeps the operation, its key if it has one, and how many tokens
\* had been consumed.
invoke(m, r, call) ==
    [m EXCEPT !.b = r.b, !.heap = r.heap, !.err = r.err,
              !.calls = Append(@, [op |-> call.op, key |-> call.key, at |-> m.flowIdx])]

builderEnterGroupArray(m, key, keys, position) ==
    invoke(m,
           IF version = "builder.go"
           THEN enterGroupArray(m.b, m.heap, key, keys, position)
           ELSE enterGroupArray_part000(m.b, m.heap, key, keys, position),
           [op |-> "enterGroupArray", key |-> key])

builderEnterGroup(m, key, keys, position) ==
    invoke(m,
           IF version = "builder.go"
           THEN enterGroup(m.b, m.heap, key, keys, position)
           ELSE enterGroup_part000(m.b, m.heap, key, keys, position),
           [op |-> "enterGroup", key |-> key])

builderEnterAssign(m, key, position) ==
    invoke(m,
           IF version = "builder.go"
           THEN enterAssign(m.b, m.heap, key, position)
           ELSE enterAssign_part000(m.b, m.heap, key, position),
           [op |-> "enterAssign", key |-> key])

builderFoundValue(m, value, position) ==
    invoke(m,
           IF version = "builder.go"
           THEN foundValue(m.b, m.heap, value, position)
           ELSE foundValue_part000(m.b, m.heap, value, position),
           [op |-> "foundValue", key |-> << >>])

builderEnterArray(m) ==
    invoke(m, enterArray(m.b, m.heap), [op |-> "enterArray", key |-> << >>])

builderExitArray(m) ==
    invoke(m,
           IF version = "builder.go"
           THEN exitArray(m.b, m.heap)
           ELSE exitArray_part000(m.b, m.heap),
           [op |-> "exitArray", key |-> << >>])

builderEnterInlineTable(m) ==
    invoke(m, enterInlineTable(m.b, m.heap), [op |-> "enterInlineTable", key |-> << >>])

\* A slip of the dispatch: parseStart looks at the token and returns itself.
parseStart_spin(m) ==
    {peek(m, tok) : tok \in peekChoices(m)}

parseStart(m) ==
    {LET m1 == peek(m, tok)
     IN  IF tok = NilToken THEN [m1 EXCEPT !.state = "nil"]
         ELSE IF tok.typ = "tokenDoubleLeftBracket" THEN [m1 EXCEPT !.state = "parseGroupArray"]
         ELSE IF tok.typ = "tokenLeftBracket" THEN [m1 EXCEPT !.state = "parseGroup"]
         ELSE IF tok.typ = "tokenKey" THEN [m1 EXCEPT !.state = "parseAssign"]
         ELSE IF tok.typ = "tokenEOF" THEN [m1 EXCEPT !.state = "nil"]
         ELSE raiseError(m1, tok, tokenPosition(m1.flowIdx + 1), "unexpected token")
     : tok \in peekChoices(m)}

\* parseGroupArray and parseGroup: keyTyp is the kind of key token expected,
\* enter the builder operation, closing the bracket that must follow.
parseHeader(m, keyTyp, expecting, enter(_, _, _, _), closing) ==
    LET startPosition == tokenPosition(m.flowIdx + 1)
        m0 == getToken(m, m.flow[m.flowIdx + 1])
    IN  UNION
        {LET m1 == getToken(m0, key)
             pk == parseKey(key.val)
         IN  IF key = NilToken
             THEN {[m1 EXCEPT !.err = NilDeref]}
             ELSE IF key.typ # keyTyp
             THEN {raiseError(m1, key, tokenPosition(m1.flowIdx), expecting)}
             ELSE IF pk.err
             THEN {raiseError(m1, key, tokenPosition(m1.flowIdx), "invalid table array key")}
             ELSE Then({enter(m1, key.val, pk.keys, startPosition)},
                       LAMBDA x : Then(assume(x, closing),
                                       LAMBDA y : {[y EXCEPT !.state = "parseStart"]}))
         : key \in peekChoices(m0)}

parseGroupArray(m) ==
    parseHeader(m, "tokenKeyGroupArray",
                "unexpected token, was expecting a table array key",
                builderEnterGroupArray, "tokenDoubleRightBracket")

parseGroup(m) ==
    parseHeader(m, "tokenKeyGroup",
                "unexpected token, was expecting a table key",
                builderEnterGroup, "tokenRightBracket")

RvalueFrame ==
    [fn |-> "parseRvalue"]

\* elems (history): where in the stream the elements parsed so far start
ArrayFrame(pc, elems) ==
    [fn |-> "parseArray", pc |-> pc, elems |-> elems]

\* previous, follow: indexes into the stream, 0 for nil; tree: the Tree that
\* the function fills and returns; key: the key whose value is being parsed
InlineTableFrame(pc, previous, follow, tree, key) ==
    [fn |-> "parseInlineTable", pc |-> pc, previous |-> previous, follow |-> follow,
     tree |-> tree, key |-> key]

Top(m) ==
    Last(m.stack)

setTop(m, frame) ==
    [m EXCEPT !.stack = Append(Front(@), frame)]

push(m, frame) ==
    [m EXCEPT !.stack = Append(@, frame)]

\* up to the call of parseRvalue; its return is returnValue
parseAssign(m) ==
    LET key == m.flow[m.flowIdx + 1]
        m0 == getToken(m, key)
        position == tokenPosition(m0.flowIdx)
    IN  Then(assume(m0, "tokenEqual"),
             LAMBDA x : Then({builderEnterAssign(x, key.val, position)},
                             LAMBDA y : {push(y, RvalueFrame)}))

\* parseRvalue (or the parseArray or parseInlineTable it ends with) returns
\* value to its caller: parseAssign returns p.parseStart, parseArray goes on
\* to look at what follows the element, parseInlineTable runs
\* tree.Set(key.val, value) and previous = follow.
returnValue(m, value) ==
    LET st == Front(m.stack)
        caller == Last(st)
    IN  IF st = << >>
        THEN [m EXCEPT !.stack = st, !.state = "parseStart"]
        ELSE IF caller.fn = "parseArray"
        THEN [m EXCEPT !.stack = Append(Front(st), [caller EXCEPT !.pc = "follow"])]
        ELSE [m EXCEPT !.stack = Append(Front(st),
                                        [caller EXCEPT !.pc = "loop",
                                                       !.previous = caller.follow]),
                       !.heap = TreeSet(m.heap, caller.tree, caller.key, value)]

\* A slip of the test: no token is taken for a comma.
tokenIsComma_never(m, i) ==
    FALSE

\* tokIsComma(previous)
tokenIsComma(m, i) ==
    i # 0 /\ m.flow[i].typ = "tokenComma"

parseRvalue(m) ==
    UNION
    {LET m1 == getToken(m, tok)
         position == tokenPosition(m1.flowIdx)
         found(value) == Then({builderFoundValue(m1, value, position)},
                              LAMBDA x : {returnValue(x, value)})
         int == integerValue(tok.val)
     IN  IF tok = NilToken THEN {raiseError(m1, tok, NoPosition, "expecting a value")}
         ELSE IF tok.typ = "tokenEOF" THEN {raiseError(m1, tok, position, "expecting a value")}
         ELSE IF tok.typ = "tokenString" THEN found(GoString(tok.val))
         ELSE IF tok.typ = "tokenTrue" THEN found(GoBool(TRUE))
         ELSE IF tok.typ = "tokenFalse" THEN found(GoBool(FALSE))
         ELSE IF tok.typ = "tokenInf"
         THEN found(GoFloat(IF tok.val[1] = "-" THEN "-Inf" ELSE "+Inf"))
         ELSE IF tok.typ = "tokenNan" THEN found(GoFloat("NaN"))
         ELSE IF tok.typ = "tokenInteger"
         THEN IF int.kind = "panic" THEN {[m1 EXCEPT !.err = RuntimePanic(int.msg)]}
              ELSE IF int.kind = "error" THEN {raiseError(m1, tok, position, int.msg)}
              ELSE found(GoInt(int.val))
         ELSE IF tok.typ = "tokenFloat"
         THEN IF numberContainsInvalidUnderscore(tok.val)
              THEN {raiseError(m1, tok, position, "invalid use of _ in number")}
              ELSE found(GoFloat(cleanupNumberToken(tok.val)))
         ELSE IF tok.typ = "tokenDate" THEN found(GoTime(tok.val))
         ELSE IF tok.typ = "tokenLeftBracket"
         THEN Then({builderEnterArray(m1)},
                   LAMBDA x : {setTop(x, ArrayFrame("loop", << >>))})
         ELSE IF tok.typ = "tokenLeftCurlyBrace"
         THEN Then({builderEnterInlineTable(m1)},
                   LAMBDA x : {setTop(x, InlineTableFrame("loop", 0, 0,
                                                          x.b.inlineTableTree, << >>))})
         ELSE IF tok.typ = "tokenEqual"
         THEN {raiseError(m1, tok, position, "cannot have multiple equals for the same key")}
         ELSE IF tok.typ = "tokenError"
         THEN {raiseError(m1, tok, position, "lexer error")}
         ELSE {raiseError(m1, tok, position, "never reached")}
     : tok \in peekChoices(m)}

\* parseArray from the top of its loop to the call of parseRvalue, or
\* through exitArray to its return.
parseArray(m) ==
    UNION
    {LET m1 == peek(m, follow)
         position == tokenPosition(m1.flowIdx + 1)
     IN  IF follow = NilToken \/ follow.typ = "tokenEOF"
         THEN {raiseError(m1, follow, position, "unterminated array")}
         ELSE IF follow.typ = "tokenRightBracket"
         THEN Then({builderExitArray(getToken(m1, follow))},
                   LAMBDA x : {returnValue(x, GoNil)})
         ELSE {push(setTop(m1, ArrayFrame("value", Append(Top(m1).elems, m1.flowIdx + 1))),
                    RvalueFrame)}
     : follow \in peekChoices(m)}

\* parseArray from the return of parseRvalue to the end of the loop body.
parseArrayFollow(m) ==
    {LET m1 == peek(m, follow)
         position == tokenPosition(m1.flowIdx + 1)
     IN  IF follow = NilToken \/ follow.typ = "tokenEOF"
         THEN raiseError(m1, follow, position, "unterminated array")
         ELSE IF follow.typ \notin {"tokenRightBracket", "tokenComma"}
         THEN raiseError(m1, follow, position, "missing comma")
         ELSE IF follow.typ = "tokenComma"
         THEN setTop(getToken(m1, follow), [Top(m1) EXCEPT !.pc = "loop"])
         ELSE setTop(m1, [Top(m1) EXCEPT !.pc = "loop"])
     : follow \in peekChoices(m)}

\* One round of the loop of parseInlineTable, up to the call of parseRvalue
\* or to the return.
parseInlineTable(m) ==
    UNION
    {LET m1 == peek(m, follow)
         at == m1.flowIdx + 1
         position == tokenPosition(at)
         frame == Top(m1)
         previous == frame.previous
     IN  IF follow = NilToken \/ follow.typ = "tokenEOF"
         THEN {raiseError(m1, follow, position, "unterminated inline table")}
         ELSE IF follow.typ = "tokenRightCurlyBrace"
         THEN IF tokenIsComma(m1, previous)
              THEN {raiseError(getToken(m1, follow), m1.flow[previous],
                               tokenPosition(previous),
                               "trailing comma at the end of inline table")}
              ELSE {returnValue(getToken(m1, follow), TreePtr(frame.tree))}
         ELSE IF follow.typ = "tokenKey"
         THEN IF ~tokenIsComma(m1, previous) /\ previous # 0
              THEN {raiseError(m1, follow, position,
                               "comma expected between fields in inline table")}
              ELSE Then(assume(getToken(m1, follow), "tokenEqual"),
                        LAMBDA x : {push(setTop(x, [frame EXCEPT !.pc = "value",
                                                                 !.follow = at,
                                                                 !.key = follow.val]),
                                         RvalueFrame)})
         ELSE IF follow.typ = "tokenComma"
         THEN IF previous = 0
              THEN {raiseError(m1, follow, position, "inline table cannot start with a comma")}
              ELSE IF tokenIsComma(m1, previous)
              THEN {raiseError(m1, follow, position,
                               "need field between two commas in inline table")}
              ELSE {setTop(getToken(m1, follow), [frame EXCEPT !.previous = at])}
         ELSE {raiseError(m1, follow, position, "unexpected token type in inline table")}
     : follow \in peekChoices(m)}

-----------------------------------------------------------------------------
(* parseToml and run: one action per state function and per stretch of     *)
(* parseRvalue, parseArray and parseInlineTable between two calls.         *)

Init ==
    /\ version \in {"builder.go", "part_000"}
    /\ flow = << >>
    /\ ended = FALSE
    /\ flowIdx = 0
    /\ state = "parseStart"
    /\ stack = << >>
    /\ heap = makeTreeBuilderHeap
    /\ b = makeTreeBuilder
    /\ err = NoErr
    /\ calls = << >>

Running(fn) ==
    /\ err = NoErr
    /\ state = fn
    /\ stack = << >>

Called(fn, pc) ==
    /\ err = NoErr
    /\ stack # << >>
    /\ Last(stack).fn = fn
    /\ fn # "parseRvalue" => Last(stack).pc = pc

ParseStart ==
    /\ Running("parseStart")
    /\ \E m \in parseStart(Machine) : Install(m)

ParseGroupArray ==
    /\ Running("parseGroupArray")
    /\ \E m \in parseGroupArray(Machine) : Install(m)

ParseGroup ==
    /\ Running("parseGroup")
    /\ \E m \in parseGroup(Machine) : Install(m)

ParseAssign ==
    /\ Running("parseAssign")
    /\ \E m \in parseAssign(Machine) : Install(m)

ParseRvalue ==
    /\ Called("parseRvalue", "")
    /\ \E m \in parseRvalue(Machine) : Install(m)

ParseArray ==
    /\ Called("parseArray", "loop")
    /\ \E m \in parseArray(Machine) : Install(m)

ParseArrayFollow ==
    /\ Called("parseArray", "follow")
    /\ \E m \in parseArrayFollow(Machine) : Install(m)

ParseInlineTable ==
    /\ Called("parseInlineTable", "loop")
    /\ \E m \in parseInlineTable(Machine) : Install(m)

Next ==
    \/ ParseStart
    \/ ParseGroupArray
    \/ ParseGroup
    \/ ParseAssign
    \/ ParseRvalue
    \/ ParseArray
    \/ ParseArrayFollow
    \/ ParseInlineTable

Spec ==
    Init /\ [][Next]_vars

-----------------------------------------------------------------------------
(* Reading the document: what the token stream says, independently of the  *)
(* builder.  Used by the properties below.                                 *)

ScalarTypes ==
    {"tokenString", "tokenInteger", "tokenFloat", "tokenTrue", "tokenFalse",
     "tokenDate", "tokenInf", "tokenNan"}

\* The value that a scalar token denotes.
ScalarOf(tok) ==
    IF tok.typ = "tokenString" THEN GoString(tok.val)
    ELSE IF tok.typ = "tokenInteger" THEN GoInt(integerValue(tok.val).val)
    ELSE IF tok.typ = "tokenTrue" THEN GoBool(TRUE)
    ELSE IF tok.typ = "tokenFalse" THEN GoBool(FALSE)
    ELSE IF tok.typ = "tokenDate" THEN GoTime(tok.val)
    ELSE GoFloat(cleanupNumberToken(tok.val))

\* The kind of the value that starts with tok.
KindOf(tok) ==
    IF tok.typ \in {"tokenTrue", "tokenFalse"} THEN "boolean"
    ELSE IF tok.typ \in {"tokenFloat", "tokenInf", "tokenNan"} THEN "float"
    ELSE IF tok.typ = "tokenLeftBracket" THEN "array"
    ELSE IF tok.typ = "tokenLeftCurlyBrace" THEN "table"
    ELSE tok.typ

IsHeader(call) ==
    call.op \in {"enterGroup", "enterGroupArray"}

\* The index in calls of the last call of op, 0 if there is none.
LastCall(ops) ==
    LET S == {i \in 1..Len(calls) : calls[i].op \in ops}
    IN  IF S = {} THEN 0 ELSE CHOOSE i \in S : \A j \in S : j <= i

\* The table that the most recent header has entered: the root before any
\* header, the table of [t], the last element of [[t]].
ContextTree ==
    LET c == LastCall({"enterGroup", "enterGroupArray"})
        node == GetPath(heap, 1, parseKey(calls[c].key).keys)
    IN  IF c = 0 THEN 1
        ELSE IF node.type = "[]*Tree" THEN Last(node.ids)
        ELSE IF node.type = "*Tree" THEN node.id
        ELSE 0

\* The parser stands between two statements, having looked at no token
\* beyond the last statement.
BetweenStatements ==
    /\ err = NoErr
    /\ state = "parseStart"
    /\ stack = << >>
    /\ flowIdx = Len(flow)

\* The index in flow of the key of the last top-level assignment.
LastAssignKey ==
    calls[LastCall({"enterAssign"})].at - 1

\* The last statement read is a complete assignment.
JustAssigned ==
    /\ BetweenStatements
    /\ LastCall({"enterAssign"}) # 0
    /\ LastCall({"enterAssign"}) > LastCall({"enterGroup", "enterGroupArray"})

\* flow[i..j] is { }, or { k = scalar (, k = scalar)* } with distinct keys.
FlatInlineTable(i, j) ==
    /\ i < j /\ j <= Len(flow)
    /\ flow[i].typ = "tokenLeftCurlyBrace"
    /\ flow[j].typ = "tokenRightCurlyBrace"
    /\ j - i = 1 \/ (j - i) % 4 = 0
    /\ \A p \in (i + 1)..(j - 1) :
         flow[p].typ = CASE (p - i) % 4 = 1 -> "tokenKey"
                         [] (p - i) % 4 = 2 -> "tokenEqual"
                         [] (p - i) % 4 = 0 -> "tokenComma"
                         [] OTHER -> flow[p].typ
    /\ \A p \in (i + 1)..(j - 1) : (p - i) % 4 = 3 => flow[p].typ \in ScalarTypes
    /\ \A p, q \in (i + 1)..(j - 1) :
         ((p - i) % 4 = 1 /\ (q - i) % 4 = 1 /\ p # q) => flow[p].val # flow[q].val

\* The keys and values written in the flat inline table flow[i..j].
InlineKeys(i, j) ==
    {flow[p].val : p \in {q \in (i + 1)..(j - 1) : (q - i) % 4 = 1}}

InlineValue(i, j, k) ==
    LET p == CHOOSE q \in (i + 1)..(j - 1) : (q - i) % 4 = 1 /\ flow[q].val = k
    IN  ScalarOf(flow[p + 2])

\* Tree node id holds exactly the keys and scalar values of flow[i..j].
HoldsInlineTable(id, i, j) ==
    /\ DOMAIN heap[id].values = InlineKeys(i, j)
    /\ \A k \in InlineKeys(i, j) :
         /\ heap[id].values[k].type = "*tomlValue"
         /\ heap[id].values[k].value = InlineValue(i, j, k)

\* The first closing brace at or after i, 0 if there is none.
ClosingBrace(i) ==
    LET S == {j \in i..Len(flow) : flow[j].typ = "tokenRightCurlyBrace"}
    IN  IF S = {} THEN 0 ELSE CHOOSE j \in S : \A q \in S : j <= q

\* The flat inline tables that are the elements of the array whose first
\* element starts at i, as <<from, to>> pairs; <<<<0, 0>>>> if what stands at
\* i is not a list of flat inline tables closed by the last token read.
RECURSIVE InlineElements(_)
InlineElements(i) ==
    LET j == ClosingBrace(i)
        bad == << <<0, 0>> >>
    IN  IF i > Len(flow) \/ j = 0 \/ j >= Len(flow) THEN bad
        ELSE IF ~FlatInlineTable(i, j) THEN bad
        ELSE IF flow[j + 1].typ = "tokenRightBracket"
        THEN IF j + 1 = Len(flow) THEN << <<i, j>> >> ELSE bad
        ELSE IF flow[j + 1].typ = "tokenComma"
        THEN LET rest == InlineElements(j + 2)
             IN  IF rest = bad THEN bad ELSE << <<i, j>> >> \o rest
        ELSE bad

-----------------------------------------------------------------------------
(* Properties *)

\* C1. Key uniqueness: when a context (the root, a [t] table, the current
\* [[t]] element) is given k = v1 and later k = v2, the second enterAssign
\* raises the duplicate-key error, and it is the last builder operation of
\* the parse: the second right-hand side is not read and the value stored
\* for k is not overwritten.
C1_DuplicateKeyAborts ==
    \A i, j \in 1..Len(calls) :
        ( /\ i < j
          /\ calls[i].op = "enterAssign"
          /\ calls[j].op = "enterAssign"
          /\ calls[i].key = calls[j].key
          /\ \A l \in i..j : ~IsHeader(calls[l]) )
        => /\ j = Len(calls)
           /\ err = Error(tokenPosition(calls[j].at - 1), "The following key was defined twice")

\* C2. Duplicate table rejection: when [k] is declared a second time, with
\* no [[p]] header of an enclosing table array (k starting with "p.") since
\* the first declaration, the second enterGroup raises "duplicated tables"
\* at the position of its opening bracket and nothing is invoked after it,
\* whatever headers and assignments lie in between.
C2_DuplicateTableRejected ==
    \A i, j \in 1..Len(calls) :
        ( /\ i < j
          /\ calls[i].op = "enterGroup"
          /\ calls[j].op = "enterGroup"
          /\ calls[i].key = calls[j].key
          /\ \A l \in i..j : ~ ( /\ calls[l].op = "enterGroupArray"
                                 /\ HasPrefix(calls[i].key, Append(calls[l].key, ".")) ) )
        => /\ j = Len(calls)
           /\ err = Error(tokenPosition(calls[j].at - 1), "duplicated tables")

\* C2 witness: a second [k] has been rejected with an assignment between the
\* two declarations.
C2_Witness ==
    /\ err.msg = "duplicated tables"
    /\ \E i \in 1..Len(calls) :
         /\ i + 1 < Len(calls)
         /\ calls[i].op = "enterGroup"
         /\ calls[i].key = calls[Len(calls)].key
         /\ \E l \in (i + 1)..(Len(calls) - 1) : calls[l].op = "foundValue"

\* The calls after the c-th are the enterAssign and foundValue of top-level
\* key = scalar assignments with pairwise distinct keys.
ScalarAssignmentsAfter(c) ==
    /\ (Len(calls) - c) % 2 = 0
    /\ \A i \in (c + 1)..Len(calls) :
         calls[i].op = IF (i - c) % 2 = 1 THEN "enterAssign" ELSE "foundValue"
    /\ \A i \in (c + 1)..Len(calls) :
         calls[i].op = "enterAssign" => flow[calls[i].at + 1].typ \in ScalarTypes
    /\ \A i, j \in (c + 1)..Len(calls) :
         (i < j /\ calls[i].op = "enterAssign" /\ calls[j].op = "enterAssign")
         => calls[i].key # calls[j].key

\* Tree node id maps exactly the keys assigned after the c-th call, each to
\* the scalar written for it.
HoldsAssignmentsAfter(id, c) ==
    LET A == {i \in (c + 1)..Len(calls) : calls[i].op = "enterAssign"}
    IN  /\ DOMAIN heap[id].values = {calls[i].key : i \in A}
        /\ \A i \in A :
             /\ heap[id].values[calls[i].key].type = "*tomlValue"
             /\ heap[id].values[calls[i].key].value = ScalarOf(flow[calls[i].at + 1])

\* How many times [[k]] has been declared since the last [[p]] of an
\* enclosing table array p.
Declared(k) ==
    LET P == {i \in 1..Len(calls) : /\ calls[i].op = "enterGroupArray"
                                    /\ HasPrefix(k, Append(calls[i].key, "."))}
    IN  Cardinality({i \in 1..Len(calls) :
                        /\ calls[i].op = "enterGroupArray"
                        /\ calls[i].key = k
                        /\ \A q \in P : q < i})

\* C3. Table arrays are append-only: after [[k]] has been declared n times,
\* path k holds a TableArray of exactly n sub-tables in declaration order,
\* and the element appended last holds exactly what has been assigned under
\* it since ([[a.c]] d = 2 [[a.c]] d = 3 gives c = [{d:2},{d:3}]).
C3_TableArrayElements ==
    LET c == LastCall({"enterGroup", "enterGroupArray"})
        node == GetPath(heap, 1, parseKey(calls[c].key).keys)
    IN  ( /\ BetweenStatements
          /\ c # 0
          /\ calls[c].op = "enterGroupArray"
          /\ ScalarAssignmentsAfter(c) )
        => /\ node.type = "[]*Tree"
           /\ Len(node.ids) = Declared(calls[c].key)
           /\ \A i, j \in 1..Len(node.ids) : i < j => node.ids[i] < node.ids[j]
           /\ HoldsAssignmentsAfter(Last(node.ids), c)

\* The structural half of C3, as a step property: a [[k]] header that
\* returns has appended one new empty table to the table array at k and has
\* left the elements that were there as they were.
C3_AppendsOneEmptyTable ==
    [][ ( /\ Len(calls') = Len(calls) + 1
          /\ Last(calls').op = "enterGroupArray"
          /\ err' = NoErr )
        => LET keys == parseKey(Last(calls').key).keys
               old == GetPath(heap, 1, keys)
               new == GetPath(heap', 1, keys)
               before == IF old.type = "[]*Tree" THEN old.ids ELSE << >>
           IN  /\ new.type = "[]*Tree"
               /\ new.ids = Append(before, Len(heap'))
               /\ heap'[Len(heap')].values = EmptyMap
               /\ \A i \in 1..Len(before) : heap'[before[i]] = heap[before[i]] ]_vars

\* The stream read so far is a document of key = scalar assignments with
\* pairwise distinct keys and nothing else.
AssignmentsOnly ==
    /\ \A i \in 1..Len(flow) :
         IF i % 3 = 1 THEN flow[i].typ = "tokenKey"
         ELSE IF i % 3 = 2 THEN flow[i].typ = "tokenEqual"
         ELSE flow[i].typ \in ScalarTypes
    /\ \A i, j \in 1..Len(flow) :
         (i % 3 = 1 /\ j % 3 = 1 /\ i # j) => flow[i].val # flow[j].val
    /\ ended => Len(flow) % 3 = 0

\* C4. Top-level assignments: a document made only of key = scalar
\* assignments with pairwise distinct keys parses without error, and after
\* each assignment the root maps exactly the keys assigned so far, each to
\* its own value.
C4_TopLevelAssignments ==
    AssignmentsOnly
    => /\ err = NoErr
       /\ BetweenStatements => HoldsAssignmentsAfter(1, 0)

\* C5. Inline table assignment: once t = {k1 = v1, ..., kn = vn} has been
\* read to its closing brace, t holds a Table with exactly k1..kn and their
\* values; a scalar is never the value of t.
C5_InlineTableAssigned ==
    LET k == LastAssignKey
        v == MapGet(heap[ContextTree].values, flow[k].val)
    IN  (JustAssigned /\ FlatInlineTable(k + 2, Len(flow)))
        => /\ v.type = "*Tree"
           /\ HoldsInlineTable(v.id, k + 2, Len(flow))

\* C6. Array-of-inline-tables equivalence: once x = [{..}, {..}] has been
\* read, x holds a TableArray with one sub-table per element, in order, each
\* with the keys and values of its element: the shape that [[x]] headers
\* give.
C6_ArrayOfInlineTables ==
    LET k == LastAssignKey
        v == MapGet(heap[ContextTree].values, flow[k].val)
        elements == InlineElements(k + 3)
    IN  ( /\ JustAssigned
          /\ k + 3 <= Len(flow)
          /\ flow[k + 2].typ = "tokenLeftBracket"
          /\ flow[k + 3].typ = "tokenLeftCurlyBrace"
          /\ elements # << <<0, 0>> >> )
        => /\ v.type = "[]*Tree"
           /\ Len(v.ids) = Len(elements)
           /\ \A i \in 1..Len(elements) :
                HoldsInlineTable(v.ids[i], elements[i][1], elements[i][2])

\* The elements that the array literal of frame f has produced so far, as
\* the indexes of their first tokens: the elements parsed to their end, and
\* the element being parsed if it is a scalar that has been consumed.
Produced(f) ==
    LET elems == stack[f].elems
        scalarRead == /\ f + 1 = Len(stack)
                      /\ stack[f + 1].fn = "parseRvalue"
                      /\ flowIdx >= Last(elems)
                      /\ flow[Last(elems)].typ \in ScalarTypes
    IN  IF stack[f].pc = "value" /\ ~scalarRead THEN Front(elems) ELSE elems

\* The array literals being parsed, each as the sequence of the kinds of the
\* elements it has produced.
OpenArrayKinds ==
    {[i \in 1..Len(Produced(f)) |-> KindOf(flow[Produced(f)[i]])]
        : f \in {g \in 1..Len(stack) : stack[g].fn = "parseArray"}}

\* Every Array stored in the tree holds elements of one type.
StoredArraysHomogeneous ==
    \A id \in 1..Len(heap) : \A k \in DOMAIN heap[id].values :
        LET v == heap[id].values[k]
        IN  (v.type = "*tomlValue" /\ v.value.type = "[]interface {}")
            => \A i, j \in 1..Len(v.value.elems) :
                   v.value.elems[i].type = v.value.elems[j].type

\* C7. Array homogeneity: as soon as an array literal has produced an
\* element of another kind than its first element, the parse has failed with
\* the mixed-type error; every Array in the tree is homogeneous.
C7_ArrayHomogeneity ==
    /\ \A kinds \in OpenArrayKinds :
         (\E i \in 1..Len(kinds) : kinds[i] # kinds[1])
         => err.msg = "mixed types in array"
    /\ StoredArraysHomogeneous

\* C8. Dotted keys in assignments: once a.b = v has been read, the context
\* holds a Table a whose key b holds v: the segments but the last name
\* nested Tables and the last segment holds the value.
C8_DottedKeyAssigned ==
    LET k == LastAssignKey
        keys == parseKey(flow[k].val).keys
    IN  ( /\ JustAssigned
          /\ k + 2 = Len(flow)
          /\ flow[k + 2].typ \in ScalarTypes
          /\ Len(keys) > 1 )
        => /\ \A n \in 1..(Len(keys) - 1) :
                GetPath(heap, ContextTree, SubSeq(keys, 1, n)).type = "*Tree"
           /\ GetPath(heap, ContextTree, keys) = ScalarOf(flow[k + 2])

\* C9. Array comma rules: a comma that follows a comma inside an array is
\* rejected with "need field between two commas"; an array of scalars with
\* one trailing comma, once read, has given the builder exactly its elements.
C9_ArrayCommas ==
    /\ ( /\ stack # << >>
         /\ Last(stack).fn = "parseRvalue"
         /\ Len(stack) > 1
         /\ stack[Len(stack) - 1].fn = "parseArray"
         /\ flowIdx >= 2
         /\ flow[flowIdx].typ = "tokenComma"
         /\ flow[flowIdx - 1].typ = "tokenComma" )
       => err.msg = "need field between two commas"
    /\ LET k == LastAssignKey
           n == (Len(flow) - k - 2) \div 2
       IN  ( /\ JustAssigned
             /\ Len(flow) >= k + 5
             /\ (Len(flow) - k) % 2 = 1
             /\ flow[k + 2].typ = "tokenLeftBracket"
             /\ flow[Len(flow)].typ = "tokenRightBracket"
             /\ \A i \in 1..n : /\ flow[k + 1 + 2 * i].typ \in ScalarTypes
                                /\ flow[k + 2 + 2 * i].typ = "tokenComma" )
           => b.array = [i \in 1..n |-> ScalarOf(flow[k + 1 + 2 * i])]

\* C10. Fail-fast positioned errors: a parse that has failed has failed with
\* an error that carries the position of a token of the stream.
C10_PositionedError ==
    err # NoErr
    => /\ err.kind = "error"
       /\ \E i \in 1..Len(flow) : err.position = tokenPosition(i)

-----------------------------------------------------------------------------
(* Integer literals: parseToml over the streams of `[a]  b = [ <literal> ]`, *)
(* for every literal over LiteralChars of at most MaxLiteralLen characters.  *)
(* The literal is the only element of an array, so that foundValue keeps    *)
(* what parseRvalue has read in b.array under both treeBuilder sources.     *)

MaxLiteralLen == 5

LiteralChars ==
    {"0", "1", "_", "x", "o", "b", "A"}

Literals ==
    UNION {[1..n -> LiteralChars] : n \in 1..MaxLiteralLen}

IntegerStatement(literal) ==
    <<Token("tokenLeftBracket", << >>), Token("tokenKeyGroup", <<"a">>),
      Token("tokenRightBracket", << >>),
      Token("tokenKey", <<"b">>), Token("tokenEqual", << >>),
      Token("tokenLeftBracket", << >>), Token("tokenInteger", literal),
      Token("tokenRightBracket", << >>)>>

\* Where the literal stands in the stream.
LiteralAt ==
    Len(IntegerStatement(<< >>)) - 1

InitInteger ==
    /\ version \in {"builder.go", "part_000"}
    /\ flow \in {IntegerStatement(literal) : literal \in Literals}
    /\ ended = TRUE
    /\ flowIdx = 0
    /\ state = "parseStart"
    /\ stack = << >>
    /\ heap = makeTreeBuilderHeap
    /\ b = makeTreeBuilder
    /\ err = NoErr
    /\ calls = << >>

NextInteger ==
    \/ ParseStart
    \/ ParseGroup
    \/ ParseAssign
    \/ ParseRvalue
    \/ ParseArray
    \/ ParseArrayFollow

SpecInteger ==
    InitInteger /\ [][NextInteger]_vars

\* The literal of the stream, once parseRvalue has consumed it.
LiteralRead ==
    flowIdx >= LiteralAt

TheLiteral ==
    flow[LiteralAt].val

\* What the characters of a literal say, read off the text.
Stripped(literal) ==
    SelectSeq(literal, LAMBDA c : c # "_")

IsDecimal(literal) ==
    /\ Stripped(literal) # << >>
    /\ \A i \in 1..Len(literal) : literal[i] \in DecDigits \cup {"_"}

FlankedBy(literal, digits) ==
    \A i \in 1..Len(literal) :
        literal[i] = "_" => /\ 1 < i
                            /\ i < Len(literal)
                            /\ literal[i - 1] \in digits
                            /\ literal[i + 1] \in digits

BoundarySeparator(literal) ==
    \/ literal[1] = "_"
    \/ literal[Len(literal)] = "_"
    \/ \E i \in 1..(Len(literal) - 1) : literal[i] = "_" /\ literal[i + 1] = "_"

\* parseRvalue has handed the integer n to foundValue
ReadAs(n) ==
    /\ b.array = <<GoInt(n)>>
    /\ \E c \in 1..Len(calls) : calls[c].op = "foundValue" /\ calls[c].at = LiteralAt

\* the literal has ended the parse and nothing has been handed to the builder
Rejected ==
    /\ err # NoErr
    /\ b.array = << >>
    /\ \A c \in 1..Len(calls) : calls[c].op # "foundValue"

\* C11. Digit separators: a base-10 integer token whose `_` all stand between
\* two digits is read as the number written by its digits; an integer token
\* with a leading `_`, a trailing `_` or two adjacent `_` is rejected with an
\* error and nothing is stored.
C11_DigitSeparators ==
    LiteralRead
    => /\ (IsDecimal(TheLiteral) /\ FlankedBy(TheLiteral, DecDigits))
          => ReadAs(digitsValue(Stripped(TheLiteral), 10, 0))
       /\ BoundarySeparator(TheLiteral) => Rejected

\* A decimal token of three digits or more that starts with 0 is taken for
\* a prefixed literal.
LeadingZero(literal) ==
    Len(Stripped(literal)) >= 3 /\ Stripped(literal)[1] = "0"

\* C11, for the tokens that do not start with a 0 followed by two or more
\* digits: the same statement.
C11_DigitSeparatorsNoLeadingZero ==
    (LiteralRead /\ ~LeadingZero(TheLiteral))
    => /\ (IsDecimal(TheLiteral) /\ FlankedBy(TheLiteral, DecDigits))
          => ReadAs(digitsValue(Stripped(TheLiteral), 10, 0))
       /\ BoundarySeparator(TheLiteral) => Rejected

C11_Witness ==
    /\ LiteralRead
    /\ TheLiteral = <<"1", "_", "0", "0", "0">>
    /\ ReadAs(1000)

HexDigits ==
    LowerHexDigits \cup {"A", "B", "C", "D", "E", "F"}

\* The digits of each base, and the base that a prefix letter names.
DigitsOf(base) ==
    {c \in HexDigits : DigitValue(c) < base}

BaseOf(letter) ==
    CASE letter = "x" -> 16 [] letter = "o" -> 8 [] letter = "b" -> 2 [] OTHER -> 10

HasBasePrefix(literal) ==
    Len(literal) >= 2 /\ literal[1] = "0" /\ literal[2] \in {"x", "o", "b"}

Remainder(literal) ==
    SubSeq(literal, 3, Len(literal))

\* a prefix followed by one or more digits of its base, `_` between two of
\* them allowed or not
WellFormedPrefixed(literal, separators) ==
    /\ HasBasePrefix(literal)
    /\ Stripped(Remainder(literal)) # << >>
    /\ \A i \in 3..Len(literal) :
           \/ literal[i] \in DigitsOf(BaseOf(literal[2]))
           \/ separators /\ literal[i] = "_"
    /\ FlankedBy(literal, DigitsOf(BaseOf(literal[2])))

PrefixedValue(literal) ==
    digitsValue(Stripped(Remainder(literal)), BaseOf(literal[2]), 0)

RejectedAtLiteral ==
    /\ Rejected
    /\ err.kind = "error"
    /\ err.position = tokenPosition(LiteralAt)

\* C12, first part: a prefix and digits of its base are read in that base.
C12_PrefixedValues ==
    (LiteralRead /\ WellFormedPrefixed(TheLiteral, FALSE))
    => ReadAs(PrefixedValue(TheLiteral))

\* C12, second part: a hex literal whose `_` all sit between two hex digits,
\* in either letter case, is read as its digits.
C12_HexSeparators ==
    (LiteralRead /\ WellFormedPrefixed(TheLiteral, TRUE) /\ TheLiteral[2] = "x")
    => ReadAs(PrefixedValue(TheLiteral))

\* C12, second part with lower-case hex digits next to every `_`.
C12_HexSeparatorsLowerCase ==
    ( /\ LiteralRead
      /\ WellFormedPrefixed(TheLiteral, TRUE)
      /\ TheLiteral[2] = "x"
      /\ FlankedBy(TheLiteral, LowerHexDigits) )
    => ReadAs(PrefixedValue(TheLiteral))

\* C12, third part: a token without a prefix is read in base 10 or rejected
\* with a positioned error.
C12_Unprefixed ==
    (LiteralRead /\ ~HasBasePrefix(TheLiteral))
    => \/ /\ IsDecimal(TheLiteral)
          /\ ReadAs(digitsValue(Stripped(TheLiteral), 10, 0))
       \/ RejectedAtLiteral

\* C12. Prefixed integers: a token with a 0x, 0o or 0b prefix is read in base
\* 16, 8 or 2; a hex literal whose `_` all sit between two hex digits of
\* either letter case is accepted and read as its digits; a token without
\* such a prefix is read in base 10 or rejected with a positioned error.
C12_PrefixedIntegers ==
    LiteralRead
    => /\ WellFormedPrefixed(TheLiteral, FALSE) => ReadAs(PrefixedValue(TheLiteral))
       /\ (WellFormedPrefixed(TheLiteral, TRUE) /\ TheLiteral[2] = "x")
          => ReadAs(PrefixedValue(TheLiteral))
       /\ ~HasBasePrefix(TheLiteral)
          => \/ /\ IsDecimal(TheLiteral)
                /\ ReadAs(digitsValue(Stripped(TheLiteral), 10, 0))
             \/ RejectedAtLiteral

\* The examples of C12: 0x1A is 26, 0b101 is 5, 0o11 is 9.
C12_Examples ==
    LiteralRead
    => /\ TheLiteral = <<"0", "x", "1", "A">> => ReadAs(26)
       /\ TheLiteral = <<"0", "b", "1", "0", "1">> => ReadAs(5)
       /\ TheLiteral = <<"0", "o", "1", "1">> => ReadAs(9)

-----------------------------------------------------------------------------

\* A step of parseRvalue that reads the scalar of a top-level assignment
\* made after one header at least.
ReadsAssignedScalar ==
    /\ err = NoErr
    /\ Len(stack) = 1
    /\ stack[1].fn = "parseRvalue"
    /\ LastCall({"enterGroup", "enterGroupArray"}) # 0
    /\ flowIdx' = flowIdx + 1
    /\ flow'[flowIdx'].typ \in ScalarTypes

\* The step has changed no Tree but node id.
ChangesOnly(id) ==
    /\ Len(heap') = Len(heap)
    /\ \A other \in 1..Len(heap) : other # id => heap'[other] = heap[other]

\* C13. Current-context routing: after a header, reading the value of k = v
\* stores v under k in the table that the most recent header has entered
\* (the table of [t], the last element of [[t]]), leaves the other keys of
\* that table alone and changes no other table of the tree.
C13_ContextRouting ==
    [][ ReadsAssignedScalar
        => LET key == flow'[flowIdx' - 2].val
               value == ScalarOf(flow'[flowIdx'])
           IN  /\ err' = NoErr
               /\ ContextTree # 0
               /\ ChangesOnly(ContextTree)
               /\ DOMAIN heap'[ContextTree].values
                    = DOMAIN heap[ContextTree].values \cup {key}
               /\ MapGet(heap'[ContextTree].values, key).type = "*tomlValue"
               /\ MapGet(heap'[ContextTree].values, key).value = value
               /\ \A k \in DOMAIN heap[ContextTree].values :
                    k # key => heap'[ContextTree].values[k] = heap[ContextTree].values[k]
      ]_vars

\* The routing alone: a value that is stored is stored in the table that the
\* most recent header has entered, whatever the key it is stored under.
C13_StoredInContext ==
    [][ (ReadsAssignedScalar /\ err' = NoErr)
        => /\ ContextTree # 0
           /\ ChangesOnly(ContextTree)
           /\ heap'[ContextTree] # heap[ContextTree]
      ]_vars

-----------------------------------------------------------------------------

\* The step invokes the builder operation op.
Invokes(op) ==
    /\ Len(calls') = Len(calls) + 1
    /\ Last(calls').op = op

\* [[key]] has been declared, and no [[p]] of an enclosing table array p
\* (key starting with "p.") has opened a new element since.
DeclaredTableArray(key) ==
    \E i \in 1..Len(calls) :
        /\ calls[i].op = "enterGroupArray"
        /\ calls[i].key = key
        /\ \A l \in i..Len(calls) :
               ~ ( /\ calls[l].op = "enterGroupArray"
                   /\ HasPrefix(key, Append(calls[l].key, ".")) )

C14_PlainTableWitness ==
    /\ err.msg = "key is already assigned and not of type table array"
    /\ Last(calls).op = "enterGroupArray"
    /\ GetPath(heap, 1, parseKey(Last(calls).key).keys).type = "*Tree"

-----------------------------------------------------------------------------
(* Headers: parseToml over the streams of MaxHeaders headers, each [k] or  *)
(* [[k]] with k among TableKeys.                                            *)

MaxHeaders == 5

TableHeader(key) ==
    <<Token("tokenLeftBracket", << >>), Token("tokenKeyGroup", key),
      Token("tokenRightBracket", << >>)>>

TableArrayHeader(key) ==
    <<Token("tokenDoubleLeftBracket", << >>), Token("tokenKeyGroupArray", key),
      Token("tokenDoubleRightBracket", << >>)>>

Headers ==
    {TableHeader(k) : k \in TableKeys} \cup {TableArrayHeader(k) : k \in TableKeys}

RECURSIVE Concat(_)
Concat(ss) ==
    IF ss = << >> THEN << >> ELSE Head(ss) \o Concat(Tail(ss))

InitHeaders ==
    /\ version \in {"builder.go", "part_000"}
    /\ flow \in {Concat(hs) : hs \in [1..MaxHeaders -> Headers]}
    /\ ended = TRUE
    /\ flowIdx = 0
    /\ state = "parseStart"
    /\ stack = << >>
    /\ heap = makeTreeBuilderHeap
    /\ b = makeTreeBuilder
    /\ err = NoErr
    /\ calls = << >>

NextHeaders ==
    \/ ParseStart
    \/ ParseGroup
    \/ ParseGroupArray

SpecHeaders ==
    InitHeaders /\ [][NextHeaders]_vars

\* When the j-th builder call is made, key has been declared by a [key] or
\* [[key]] header and no later [[k]] header with key starting with "k." has
\* opened a new element since.
StillSeen(j, key) ==
    \E i \in 1..(j - 1) :
        /\ IsHeader(calls[i])
        /\ calls[i].key = key
        /\ \A l \in (i + 1)..(j - 1) :
               ~ ( /\ calls[l].op = "enterGroupArray"
                   /\ HasPrefix(key, Append(calls[l].key, ".")) )

\* The j-th builder call has ended the parse with msg at its opening bracket.
RaisedBy(j, msg) ==
    /\ j = Len(calls)
    /\ err = Error(tokenPosition(calls[j].at - 1), msg)

\* C15. Seen-key pruning at table-array boundaries: a [q] header is rejected
\* with "duplicated tables" exactly when q has been declared and no [[k]]
\* with q starting with "k." has come since.  So after [[k]] the keys under
\* "k." can be declared once more, a second time in the same element is
\* rejected, and k itself, unrelated keys and keys that only share leading
\* characters with k stay rejected.  A [q] that is not rejected raises
\* nothing.
C15_SeenKeyPruning ==
    \A j \in 1..Len(calls) :
        calls[j].op = "enterGroup"
        => IF StillSeen(j, calls[j].key)
           THEN RaisedBy(j, "duplicated tables")
           ELSE j = Len(calls) => err = NoErr

\* C15 witness: [q] declared, pruned by a [[k]], declared again, and rejected
\* the third time; a key that is no child of k has been declared before the
\* [[k]] as well.
C15_Witness ==
    /\ Len(calls) >= 4
    /\ RaisedBy(Len(calls), "duplicated tables")
    /\ \E i, l, r \in 1..Len(calls) :
         /\ i < l /\ l < r /\ r < Len(calls)
         /\ calls[i].op = "enterGroup" /\ calls[r].op = "enterGroup"
         /\ calls[i].key = Last(calls).key /\ calls[r].key = Last(calls).key
         /\ calls[l].op = "enterGroupArray"
         /\ HasPrefix(calls[i].key, Append(calls[l].key, "."))

\* [kx] has been rejected after [kx] and a [[k]] in between.
C15_SharedPrefixWitness ==
    /\ Len(calls) >= 3
    /\ RaisedBy(Len(calls), "duplicated tables")
    /\ Last(calls).key = <<"a", "b">>
    /\ \E i, l \in 1..Len(calls) :
         /\ i < l
         /\ calls[i].op = "enterGroup" /\ calls[i].key = <<"a", "b">>
         /\ calls[l].op = "enterGroupArray" /\ calls[l].key = <<"a">>

-----------------------------------------------------------------------------

\* The loop of parseInlineTable is about to look at the next token.
AtInlineTableLoop ==
    /\ err = NoErr
    /\ stack # << >>
    /\ Last(stack).fn = "parseInlineTable"
    /\ Last(stack).pc = "loop"

\* Where the inline table stands, read off the last token consumed: its
\* opening brace, a comma, or the end of a field.
InlineTableAfter ==
    IF flow[flowIdx].typ = "tokenLeftCurlyBrace" THEN "brace"
    ELSE IF flow[flowIdx].typ = "tokenComma" THEN "comma"
    ELSE "field"

\* The token that the step has looked at, NilToken at the end of the stream.
NextToken ==
    IF Len(flow') > flowIdx THEN flow'[flowIdx + 1] ELSE NilToken

\* The token after it.
SecondToken ==
    IF Len(flow') > flowIdx + 1 THEN flow'[flowIdx + 2] ELSE NilToken

\* { } | { k = v (, k = v)* }: what may follow each place.
InlineTableAllows(after, typ) ==
    CASE after = "brace" -> typ \in {"tokenRightCurlyBrace", "tokenKey"}
      [] after = "comma" -> typ = "tokenKey"
      [] after = "field" -> typ \in {"tokenRightCurlyBrace", "tokenComma"}

\* C16. Inline-table comma grammar: each round of the InlineTable loop goes
\* on exactly when the next token continues { } or { k = v (, k = v)* }: a
\* closing brace ends the table, a comma is consumed, a key followed by = has
\* its value parsed next; a leading comma, a second comma, a field without a
\* comma before it, a closing brace after a comma, any other token and the
\* end of the stream all end the parse with an error.
C16_InlineTableCommas ==
    [][ AtInlineTableLoop
        => IF ~InlineTableAllows(InlineTableAfter, NextToken.typ)
           THEN /\ err' # NoErr
                /\ heap' = heap
           ELSE CASE NextToken.typ = "tokenRightCurlyBrace" ->
                         /\ err' = NoErr
                         /\ flowIdx' = flowIdx + 1
                         /\ Len(stack') < Len(stack)
                  [] NextToken.typ = "tokenComma" ->
                         /\ err' = NoErr
                         /\ flowIdx' = flowIdx + 1
                         /\ Len(stack') = Len(stack)
                  [] NextToken.typ = "tokenKey" ->
                         IF SecondToken.typ = "tokenEqual"
                         THEN /\ err' = NoErr
                              /\ flowIdx' = flowIdx + 2
                              /\ Len(stack') = Len(stack) + 1
                              /\ Last(stack').fn = "parseRvalue"
                         ELSE err' # NoErr
      ]_vars

\* C16 witness: a trailing comma has been rejected after one field.
C16_Witness ==
    /\ err.msg = "trailing comma at the end of inline table"
    /\ flowIdx >= 3
    /\ flow[flowIdx].typ = "tokenRightCurlyBrace"
    /\ flow[flowIdx - 1].typ = "tokenComma"
    /\ flow[flowIdx - 2].typ \in ScalarTypes

-----------------------------------------------------------------------------

\* flow[p] is a key of an inline table that the field just before it, a
\* key = scalar field, has assigned already, and the = after it has been
\* consumed.
SecondInlineAssignment(p) ==
    /\ p >= 5
    /\ p + 1 <= flowIdx
    /\ flow[p + 1].typ = "tokenEqual"
    /\ flow[p].typ = "tokenKey"
    /\ flow[p - 1].typ = "tokenComma"
    /\ flow[p - 2].typ \in ScalarTypes
    /\ flow[p - 3].typ = "tokenEqual"
    /\ flow[p - 4].typ = "tokenKey"
    /\ flow[p - 4].val = flow[p].val

\* C17. Key uniqueness inside inline tables: once { ..., k = v1, k = has been
\* read, the parse has failed with an error at the second k; the second
\* value is not read.
C17_InlineKeyUniqueness ==
    \A p \in 1..Len(flow) :
        SecondInlineAssignment(p)
        => /\ err.kind = "error"
           /\ err.position = tokenPosition(p)
           /\ flowIdx = p + 1

-----------------------------------------------------------------------------
(* The builder on its own: the operations of the builder interface invoked  *)
(* in any order by a client, MaxCalls of them at most, with inline tables   *)
(* handed to foundValue as *Tree values.  No token is read: `at` is 0 in    *)
(* the history and positions number the calls.                              *)

MaxCalls == 7

\* What a client hands to foundValue: a scalar, or the inline table that
\* enterInlineTable has allocated.
ClientValues ==
    {GoInt(1)} \cup (IF b.inlineTableTree = 0 THEN {} ELSE {TreePtr(b.inlineTableTree)})

InitBuilder ==
    /\ version \in {"builder.go", "part_000"}
    /\ flow = << >>
    /\ ended = TRUE
    /\ flowIdx = 0
    /\ state = "nil"
    /\ stack = << >>
    /\ heap = makeTreeBuilderHeap
    /\ b = makeTreeBuilder
    /\ err = NoErr
    /\ calls = << >>

ClientMayCall ==
    /\ state = "nil"
    /\ err = NoErr
    /\ Len(calls) < MaxCalls

CallPosition ==
    Position(1, Len(calls) + 1)

CallEnterGroup ==
    /\ ClientMayCall
    /\ Install(builderEnterGroup(Machine, <<"a">>, parseKey(<<"a">>).keys, CallPosition))

CallEnterAssign ==
    /\ ClientMayCall
    /\ Install(builderEnterAssign(Machine, <<"b">>, CallPosition))

CallFoundValue ==
    /\ ClientMayCall
    /\ \E value \in ClientValues : Install(builderFoundValue(Machine, value, CallPosition))

CallEnterArray ==
    /\ ClientMayCall
    /\ Install(builderEnterArray(Machine))

CallExitArray ==
    /\ ClientMayCall
    /\ Install(builderExitArray(Machine))

CallEnterInlineTable ==
    /\ ClientMayCall
    /\ Install(builderEnterInlineTable(Machine))

NextBuilder ==
    \/ CallEnterGroup
    \/ CallEnterAssign
    \/ CallFoundValue
    \/ CallEnterArray
    \/ CallExitArray
    \/ CallEnterInlineTable

SpecBuilder ==
    InitBuilder /\ [][NextBuilder]_vars

\* An enterArray has not been followed by an exitArray.
ArrayOpen ==
    LastCall({"enterArray"}) > LastCall({"exitArray"})

\* C18. exitArray always closes accumulation mode: when exitArray has
\* returned, whatever it has stored, inArray is false; and a foundValue
\* invoked while no array is open appends nothing to the array buffer and
\* is not tested against the type of the old elements.
C18_ExitArrayCloses ==
    [][ /\ (Invokes("exitArray") /\ err' = NoErr) => ~b'.inArray
        /\ (Invokes("foundValue") /\ ~ArrayOpen)
           => /\ b'.array = b.array
              /\ err'.msg # "mixed types in array"
      ]_vars

\* C18 for the arrays that exitArray stores as a plain Array.
C18_PlainArrayCloses ==
    [][ ( /\ Invokes("exitArray")
          /\ err' = NoErr
          /\ b.arrayType # "*Tree" )
        => ~b'.inArray
      ]_vars

\* exitArray has stored a table array and returned with inArray set.
C18_TableArrayLeftOpen ==
    /\ calls # << >>
    /\ Last(calls).op = "exitArray"
    /\ err = NoErr
    /\ b.arrayType = "*Tree"
    /\ b.inArray

-----------------------------------------------------------------------------

\* The step reads the closing bracket of an array that is an element of
\* another array.
ClosesInnerArray ==
    /\ err = NoErr
    /\ Len(stack) >= 2
    /\ Last(stack).fn = "parseArray"
    /\ Last(stack).pc = "loop"
    /\ stack[Len(stack) - 1].fn = "parseArray"
    /\ Invokes("exitArray")

\* The array of scalars whose elements start at the indexes elems.
ScalarArray(elems) ==
    GoSlice([i \in 1..Len(elems) |-> ScalarOf(flow[elems[i]])])

\* C19. Nested arrays: closing an array that is an element of another array
\* raises nothing, stores nothing in the tree (the inner array is not the
\* value of the key), leaves the builder accumulating, with one element per
\* element of the outer array read so far, the last one being the inner
\* array.
C19_NestedArrays ==
    [][ ClosesInnerArray
        => LET outer == stack[Len(stack) - 1].elems
               inner == Last(stack).elems
           IN  /\ err' = NoErr
               /\ heap' = heap
               /\ b'.inArray
               /\ Len(b'.array) = Len(outer)
               /\ (\A i \in 1..Len(inner) : flow[inner[i]].typ \in ScalarTypes)
                  => Last(b'.array) = ScalarArray(inner)
      ]_vars

\* x = [[v]] has been read and the value stored is the inner array [v].
C19_InnerArrayStored ==
    /\ JustAssigned
    /\ Len(flow) = LastAssignKey + 6
    /\ flow[LastAssignKey + 2].typ = "tokenLeftBracket"
    /\ flow[LastAssignKey + 3].typ = "tokenLeftBracket"
    /\ flow[LastAssignKey + 4].typ \in ScalarTypes
    /\ flow[LastAssignKey + 5].typ = "tokenRightBracket"
    /\ flow[LastAssignKey + 6].typ = "tokenRightBracket"
    /\ \E k \in DOMAIN heap[ContextTree].values :
           /\ heap[ContextTree].values[k].type = "*tomlValue"
           /\ heap[ContextTree].values[k].value = ScalarArray(<<LastAssignKey + 4>>)

-----------------------------------------------------------------------------

\* run has left its loop, or a panic has ended the parse.
Halted ==
    state = "nil" \/ err # NoErr

\* How far the parser is from its next getToken: 2 when the next step
\* consumes a token or aborts (a value is about to be read), 1 when it does
\* so after one more look at the stream at most, 0 otherwise.
Phase ==
    IF stack = << >>
    THEN IF state = "parseStart" THEN 0 ELSE 1
    ELSE IF Last(stack).fn = "parseRvalue" THEN 2
    ELSE IF Last(stack).fn = "parseArray" /\ Last(stack).pc = "loop" THEN 1
    ELSE 0

\* Three units per token consumed, one per phase: a state function that is
\* bounded by the length of the stream.
Progress ==
    3 * flowIdx + Phase

\* A state function, or a stretch of parseRvalue, parseArray or
\* parseInlineTable, is about to run.
Ready ==
    IF stack = << >>
    THEN state \in {"parseStart", "parseGroup", "parseGroupArray", "parseAssign"}
    ELSE \/ Last(stack).fn = "parseRvalue"
         \/ Last(stack).fn = "parseArray" /\ Last(stack).pc \in {"loop", "follow"}
         \/ Last(stack).fn = "parseInlineTable" /\ Last(stack).pc = "loop"

\* The parser is never stuck: short of the terminal state or an error, a
\* step can be taken.
C20_NeverStuck ==
    Halted \/ ENABLED Next

\* C20. Termination: short of its terminal state or an error the parser
\* always has a function to run; the token index never decreases and never exceeds the length
\* of the stream; run leaves its loop only when Start sees the end of the
\* stream or the end-of-stream token; every pass through Group, GroupArray
\* and Assign and every round of the InlineTable loop consumes a token or
\* aborts; and every step that does not end the parse increases Progress,
\* which 3 * Len(flow) + 2 bounds: no state repeats, every run ends.
C20_Termination ==
    /\ [](Halted \/ Ready)
    /\ [](flowIdx <= Len(flow) /\ Progress <= 3 * Len(flow) + 2)
    /\ [][ /\ flowIdx' >= flowIdx
           /\ Len(flow') >= Len(flow)
           /\ state' = "nil"
              => /\ state = "parseStart"
                 /\ stack = << >>
                 /\ err' = NoErr
                 /\ NextToken.typ \in {"nil", "tokenEOF"}
           /\ ( \/ stack = << >> /\ state \in {"parseGroup", "parseGroupArray", "parseAssign"}
                \/ stack # << >> /\ Last(stack).fn \in {"parseInlineTable", "parseRvalue"} )
              => (flowIdx' > flowIdx \/ err' # NoErr)
           /\ ~Halted' => Progress' > Progress
         ]_vars

\* C20 witness: a parse that has gone through a header, an assignment and
\* the array loop has ended in the terminal state.
C20_Witness ==
    /\ state = "nil"
    /\ err = NoErr
    /\ flowIdx >= 8
    /\ \E i, j \in 1..Len(calls) : calls[i].op = "enterGroup" /\ calls[j].op = "exitArray"

====
